---- MODULE Spec2Model ----
(***************************************************************************)
(* FastWebFramework: cookie/Redis-token authentication, the /admin         *)
(* middleware, the user table, and the database-session and Redis-client   *)
(* managers.                                                               *)
(*                                                                         *)
(* Spec         the application: users, Redis token store, requests        *)
(*              passing through AdminAuthMiddleware.dispatch.              *)
(* SpecSession  the resource managers: lifespan, DatabaseSessionManager    *)
(*              (session, dependency, connection), RedisClientManager.     *)
(***************************************************************************)
EXTENDS Integers, Sequences, FiniteSets, TLC

VARIABLES users, nextId, store, nextToken, revoked, expired, req,
          lifespanOn, life, pool, factory, engine, appState, adminViews, db, rc,
          aa, cs, rows, mg

appVars == <<users, nextId, store, nextToken, revoked, expired, req>>

resVars == <<lifespanOn, life, pool, factory, engine, appState, adminViews, db, rc>>

\* the last call of AdminAuth or of the admin panel, the last request through
\* the CSRF middleware, the table of a BaseManager and its last call
auxVars == <<aa, cs, rows, mg>>

vars == <<appVars, resVars, auxVars>>

(***************************************************************************)
(* Bounds of the model.                                                    *)
(***************************************************************************)
\* user ids (UUIDs) the model hands out, never reused
MaxUsers == 2
\* access tokens the model issues, never reused
MaxTokens == 2
\* seconds that pass in one step of the clock
TickSeconds == 1800

(***************************************************************************)
(* Program constants.                                                      *)
(***************************************************************************)
\* schemes.py Field(max_length=20), model.py String(20)
UsernameMaxLength == 20
\* schemes.py Field(min_length=1)
UsernameMinLength == 1
\* backend.py RedisStrategy(lifetime_seconds=3600)
LifetimeSeconds == 3600
\* backend.py RedisStrategy(key_prefix='access_token')
KeyPrefix == "access_token"

(***************************************************************************)
(* Strings the code looks into are sequences of characters.                *)
(***************************************************************************)
AdminPrefix == <<"/", "a", "d", "m", "i", "n">>
PathAdminDelete == AdminPrefix \o <<"/", "u", "s", "e", "r", "/", "d", "e", "l", "e", "t", "e">>
PathAdministrator == AdminPrefix \o <<"i", "s", "t", "r", "a", "t", "o", "r">>
PathHome == <<"/">>
PathAdm == <<"/", "a", "d", "m">>

Paths == {PathAdminDelete, PathAdministrator, PathHome, PathAdm}

\* a comparison of the whole path where a prefix test is meant
StartsWithWholePath(s, p) == s = p

\* str.startswith
StartsWith(s, p) == Len(s) >= Len(p) /\ SubSeq(s, 1, Len(p)) = p

NameOf(c, n) == [i \in 1..n |-> c]

\* usernames a registration may carry: empty, short, exactly 20, 21 characters
Usernames == {NameOf("a", 0), NameOf("a", 1), NameOf("b", 1),
              NameOf("c", UsernameMaxLength), NameOf("c", UsernameMaxLength + 1)}


(***************************************************************************)
(* The user table (auth/model.py) and the Redis keyspace.                  *)
(***************************************************************************)
UserIds == 1..MaxUsers
Tokens == 1..MaxTokens
\* a request's access_token cookie: 0 is no cookie; a token not issued yet is a
\* value the server never handed out
Cookies == 0..MaxTokens

Key(t) == <<KeyPrefix, t>>

\* the tokens the strategy has handed out so far
Issued == 1..(nextToken - 1)

EmptyTable == [u \in {} |-> [username |-> <<>>, is_active |-> TRUE, is_superuser |-> FALSE]]

SeedUser(act, sup) == [username |-> NameOf("a", 1), is_active |-> act, is_superuser |-> sup]

\* tables the application may start on: the database outlives the process
InitialTables == {EmptyTable} \cup {[u \in {1} |-> SeedUser(act, TRUE)] : act \in BOOLEAN}

UsernameTaken(tbl, name) == \E u \in DOMAIN tbl : tbl[u].username = name

\* pydantic validation of UserCreate.username
UsernameValid(name) == Len(name) >= UsernameMinLength /\ Len(name) <= UsernameMaxLength

\* a read_token that resolves a key whose user is gone to a remaining user
ReadTokenFallsBack(t, st, tbl) ==
    IF t = 0 \/ Key(t) \notin DOMAIN st THEN 0
    ELSE IF st[Key(t)].uid \in DOMAIN tbl THEN st[Key(t)].uid
    ELSE IF DOMAIN tbl # {} THEN CHOOSE u \in DOMAIN tbl : TRUE ELSE 0

\* RedisStrategy.read_token: the user a token resolves to, 0 for None
ReadToken(t, st, tbl) ==
    IF t = 0 \/ Key(t) \notin DOMAIN st THEN 0
    ELSE IF st[Key(t)].uid \in DOMAIN tbl THEN st[Key(t)].uid ELSE 0

\* fastapi_users current_user(active, superuser): status and user
CurrentUser(t, st, tbl, active, superuser) ==
    LET u == ReadToken(t, st, tbl) IN
    IF u = 0 THEN [status |-> 401, user |-> 0]
    ELSE IF active /\ ~tbl[u].is_active THEN [status |-> 401, user |-> 0]
    ELSE IF superuser /\ ~tbl[u].is_superuser THEN [status |-> 403, user |-> 0]
    ELSE [status |-> 200, user |-> u]

\* dependencies.py
current_user(t, st, tbl) == CurrentUser(t, st, tbl, FALSE, FALSE)
current_admin_user(t, st, tbl) == CurrentUser(t, st, tbl, FALSE, TRUE)

Detail(status) == IF status = 401 THEN "Unauthorized" ELSE IF status = 403 THEN "Forbidden" ELSE "null"

\* GET /auth/protected: the response the check receives from a working service
protected(t, st, tbl) ==
    LET r == current_admin_user(t, st, tbl) IN
    IF r.status = 200 THEN [status |-> 200, json |-> FALSE, detail |-> "null"]
    ELSE [status |-> r.status, json |-> TRUE, detail |-> Detail(r.status)]

(***************************************************************************)
(* Requests and results.                                                   *)
(***************************************************************************)
NoCheck == [kind |-> "none", status |-> 0, json |-> FALSE, detail |-> "null"]
NoOut == [kind |-> "none", status |-> 0, detail |-> "null", user |-> 0]
IdleReq == [pc |-> "idle", path |-> PathHome, cookie |-> 0,
            check |-> NoCheck, called |-> FALSE, out |-> NoOut]

\* exceptions.py: HttpServerException
HttpServerException == [status |-> 500, detail |-> "server error"]

InitApp ==
    /\ users \in InitialTables
    /\ nextId = IF DOMAIN users = {} THEN 1 ELSE 2
    /\ store = [k \in {} |-> [uid |-> 0, ttl |-> 0]]
    /\ nextToken = 1
    /\ revoked = {}
    /\ expired = {}
    /\ req = IdleReq

(***************************************************************************)
(* POST /auth/register (main.py get_register_router(UserRead, UserCreate)) *)
(***************************************************************************)
\* a table without the unique constraint on username
RegisterStatusNoUnique(tbl, name, emailTaken) ==
    IF ~UsernameValid(name) THEN 422
    ELSE IF emailTaken THEN 400
    ELSE 201

\* emailTaken: the user manager found the request's email already registered
RegisterStatus(tbl, name, emailTaken) ==
    IF ~UsernameValid(name) THEN 422
    ELSE IF emailTaken THEN 400
    ELSE IF UsernameTaken(tbl, name) THEN 500
    ELSE 201

Register(name, emailTaken) ==
    LET status == RegisterStatus(users, name, emailTaken) IN
    /\ nextId <= MaxUsers
    /\ IF status = 201
       THEN /\ users' = [u \in DOMAIN users \cup {nextId} |->
                            IF u = nextId
                            THEN [username |-> name,
                                  is_active |-> TRUE, is_superuser |-> FALSE]
                            ELSE users[u]]
            /\ nextId' = nextId + 1
       ELSE UNCHANGED <<users, nextId>>
    /\ UNCHANGED <<store, nextToken, revoked, expired, req, resVars, auxVars>>

(***************************************************************************)
(* POST /auth/jwt/login, /auth/jwt/logout (main.py get_auth_router with    *)
(* the Redis strategy of auth/backend.py)                                  *)
(***************************************************************************)
\* RedisStrategy.write_token: SET prefix+token = user id, EX lifetime
WriteToken(st, t, u) ==
    [k \in DOMAIN st \cup {Key(t)} |->
        IF k = Key(t) THEN [uid |-> u, ttl |-> LifetimeSeconds] ELSE st[k]]

\* a logout that leaves the key in Redis
DestroyTokenKeepsKey(st, t) == st

\* RedisStrategy.destroy_token: DEL prefix+token
DestroyToken(st, t) == [k \in DOMAIN st \ {Key(t)} |-> st[k]]

Login(u) ==
    /\ nextToken <= MaxTokens
    /\ u \in DOMAIN users
    /\ users[u].is_active
    /\ store' = WriteToken(store, nextToken, u)
    /\ nextToken' = nextToken + 1
    /\ UNCHANGED <<users, nextId, revoked, expired, req, resVars, auxVars>>

Logout(t) ==
    LET r == CurrentUser(t, store, users, TRUE, FALSE) IN
    /\ r.status = 200
    /\ store' = DestroyToken(store, t)
    /\ revoked' = revoked \cup {t}
    /\ UNCHANGED <<users, nextId, nextToken, expired, req, resVars, auxVars>>

\* Redis key expiry as time passes
Tick ==
    LET gone == {k \in DOMAIN store : store[k].ttl <= TickSeconds} IN
    /\ DOMAIN store # {}
    /\ store' = [k \in DOMAIN store \ gone |-> [store[k] EXCEPT !.ttl = @ - TickSeconds]]
    /\ expired' = expired \cup {k[2] : k \in gone}
    /\ UNCHANGED <<users, nextId, nextToken, revoked, req, resVars, auxVars>>

(***************************************************************************)
(* AdminAuthMiddleware.dispatch (admin/middleware.py)                      *)
(***************************************************************************)
\* a request enters dispatch; /admin routes go to the outbound check
Dispatch(path, cookie) ==
    /\ req.pc \in {"idle", "done"}
    /\ req' = [IdleReq EXCEPT !.pc = IF StartsWith(path, AdminPrefix) THEN "checking" ELSE "call_next",
                              !.path = path, !.cookie = cookie]
    /\ UNCHANGED <<users, nextId, store, nextToken, revoked, expired, resVars, auxVars>>

\* a dispatch that goes on to call_next whatever the check answered
OnResponseIgnoresStatus(r, resp) ==
    [r EXCEPT !.pc = "call_next", !.check = [kind |-> "response"] @@ resp]

\* what dispatch does with the response of client.get
OnResponse(r, resp) ==
    IF resp.status = 200
    THEN [r EXCEPT !.pc = "call_next", !.check = [kind |-> "response"] @@ resp]
    ELSE IF resp.json
    THEN [r EXCEPT !.pc = "done", !.check = [kind |-> "response"] @@ resp,
                   !.out = [kind |-> "json", status |-> resp.status, detail |-> resp.detail, user |-> 0]]
    ELSE [r EXCEPT !.pc = "done", !.check = [kind |-> "response"] @@ resp,
                   !.out = [kind |-> "raise", status |-> 500, detail |-> "JSONDecodeError", user |-> 0]]

\* client.get raised httpx.RequestError
OnRequestError(r) ==
    [r EXCEPT !.pc = "done", !.check = [NoCheck EXCEPT !.kind = "error"],
              !.out = [kind |-> "raise", status |-> HttpServerException.status,
                       detail |-> HttpServerException.detail, user |-> 0]]

\* the outbound GET <BASE_URL>auth/protected with the request's cookies
CheckAnswered ==
    /\ req.pc = "checking"
    /\ req' = OnResponse(req, protected(req.cookie, store, users))
    /\ UNCHANGED <<users, nextId, store, nextToken, revoked, expired, resVars, auxVars>>

\* the service answers with an unhandled-error page (text/plain body)
CheckServerError ==
    /\ req.pc = "checking"
    /\ req' = OnResponse(req, [status |-> 500, json |-> FALSE, detail |-> "null"])
    /\ UNCHANGED <<users, nextId, store, nextToken, revoked, expired, resVars, auxVars>>

\* the service cannot be reached
CheckUnavailable ==
    /\ req.pc = "checking"
    /\ req' = OnRequestError(req)
    /\ UNCHANGED <<users, nextId, store, nextToken, revoked, expired, resVars, auxVars>>

\* call_next(request): the route handler. target is the primary key an admin
\* delete request names (0: the request is for a page of the panel)
CallNext(target) ==
    /\ req.pc = "call_next"
    /\ target # 0 => req.path = PathAdminDelete
    /\ LET r == current_user(req.cookie, store, users)
           del == req.path = PathAdminDelete /\ target \in DOMAIN users
       IN /\ req' = [req EXCEPT !.pc = "done", !.called = TRUE,
                        !.out = IF req.path = PathHome
                                THEN [kind |-> "next", status |-> r.status, detail |-> "null", user |-> r.user]
                                ELSE [kind |-> "next",
                                      status |-> IF (req.path = PathAdminDelete /\ target = 0) \/ del
                                                 THEN 200 ELSE 404,
                                      detail |-> "null", user |-> 0]]
          /\ users' = IF del THEN [u \in DOMAIN users \ {target} |-> users[u]] ELSE users
    /\ UNCHANGED <<nextId, store, nextToken, revoked, expired, resVars, auxVars>>

NextApp ==
    \/ \E name \in Usernames, emailTaken \in BOOLEAN : Register(name, emailTaken)
    \/ \E u \in UserIds : Login(u)
    \/ \E t \in Cookies : Logout(t)
    \/ Tick
    \/ \E path \in Paths, cookie \in Cookies : Dispatch(path, cookie)
    \/ CheckAnswered
    \/ CheckServerError
    \/ CheckUnavailable
    \/ \E target \in 0..MaxUsers : CallNext(target)

(***************************************************************************)
(* The resource managers: main.py lifespan, database/session.py,           *)
(* redis_database/client.py                                                *)
(***************************************************************************)
InitRes ==
    /\ life = "created"
    /\ pool = "none"
    /\ factory = FALSE
    /\ engine = "none"
    /\ appState = {}
    /\ adminViews = {}
    /\ db = [pc |-> "idle"]
    /\ rc = [pc |-> "idle"]

\* lifespan(app): one awaited statement after the other
LifespanStep ==
    /\ lifespanOn
    /\ CASE life = "created" ->
                /\ pool' = "open"
                /\ life' = "redis_ready"
                /\ UNCHANGED <<factory, engine, appState, adminViews>>
         [] life = "redis_ready" ->
                /\ appState' = appState \cup {"redis_manager"}
                /\ life' = "redis_set"
                /\ UNCHANGED <<pool, factory, engine, adminViews>>
         [] life = "redis_set" ->
                /\ engine' = "open"
                /\ factory' = TRUE
                /\ life' = "db_ready"
                /\ UNCHANGED <<pool, appState, adminViews>>
         [] life = "db_ready" ->
                /\ appState' = appState \cup {"db_manager"}
                /\ life' = "db_set"
                /\ UNCHANGED <<pool, factory, engine, adminViews>>
         [] life = "db_set" ->
                /\ adminViews' = adminViews \cup {"UserAdmin"}
                /\ life' = "serving"
                /\ UNCHANGED <<pool, factory, engine, appState>>
         [] life = "serving" ->
                /\ pool' = IF pool = "none" THEN pool ELSE "closed"
                /\ life' = "redis_closed"
                /\ UNCHANGED <<factory, engine, appState, adminViews>>
         [] life = "redis_closed" ->
                /\ engine' = IF engine = "none" THEN engine ELSE "disposed"
                /\ life' = "stopped"
                /\ UNCHANGED <<pool, factory, appState, adminViews>>
         [] OTHER -> FALSE
    /\ UNCHANGED <<lifespanOn, db, rc, appVars, auxVars>>

\* a server that takes requests before startup has completed
ServingAnyTime == TRUE

\* a server that runs the lifespan protocol serves requests between startup
\* and shutdown; one that does not (lifespan off) serves them at once
Serving == IF lifespanOn THEN life = "serving" ELSE TRUE

(***************************************************************************)
(* One use of a database session.  calls: the calls made on the session,   *)
(* in order, "body" marking the caller's code; failed: the calls that      *)
(* raised; exc: the exception in flight; err: the one the caller receives. *)
(***************************************************************************)
NewUse(mode, iso, commit) ==
    [pc |-> "start", mode |-> mode, iso |-> iso, commit |-> commit,
     hadManager |-> FALSE, ctx |-> <<>>, created |-> FALSE, open |-> FALSE,
     calls |-> <<>>, failed |-> {}, first |-> "none", exc |-> "none", err |-> "none",
     result |-> "none", persisted |-> FALSE]

\* AsyncSession.execute / commit / rollback / close
Execute(d, ok) == [d EXCEPT !.calls = Append(@, "execute"),
                            !.failed = IF ok THEN @ ELSE @ \cup {"execute"}]
Commit(d, ok) == [d EXCEPT !.calls = Append(@, "commit"), !.persisted = ok,
                           !.failed = IF ok THEN @ ELSE @ \cup {"commit"}]
Rollback(d, ok) == [d EXCEPT !.calls = Append(@, "rollback"),
                             !.failed = IF ok THEN @ ELSE @ \cup {"rollback"}]
\* a close that does not release the session
CloseLeavesOpen(d) == [d EXCEPT !.calls = Append(@, "close")]

Close(d) == [d EXCEPT !.calls = Append(@, "close"), !.open = FALSE]

\* an exception leaves the try block: Exception goes to the except clause,
\* any other BaseException (a cancellation) straight to finally
Raise(d, e) == [d EXCEPT !.exc = e, !.first = e, !.pc = IF e = "CancelledError" THEN "finally" ELSE "except"]

\* the context or call is over: the caller gets the result or the exception
Leave(d) == [d EXCEPT !.pc = "done", !.err = d.exc,
                      !.result = IF d.exc = "none" THEN "returned" ELSE "raised"]

\* session(): async with self.session_factory() as session, to the first await
SessionEnter(d, iso, commit, hasFactory) ==
    IF ~hasFactory
    THEN Leave([d EXCEPT !.exc = "TypeError"])
    ELSE [d EXCEPT !.ctx = <<iso, commit>>, !.created = TRUE, !.open = TRUE,
                   !.pc = IF iso THEN "iso" ELSE "body"]

\* session(): SET TRANSACTION ISOLATION LEVEL, then yield
SessionIsolation(d, ok) ==
    IF ok THEN [Execute(d, ok) EXCEPT !.pc = "body"]
    ELSE Raise(Execute(d, ok), "ExecuteError")

\* session() without the commit after the yield
SessionAfterBodyNoCommit(d, outcome) ==
    LET b == [d EXCEPT !.calls = Append(@, "body"),
                       !.failed = IF outcome = "ok" THEN @ ELSE @ \cup {"body"}] IN
    IF outcome = "raise" THEN Raise(b, "BodyError")
    ELSE IF outcome = "cancel" THEN Raise(b, "CancelledError")
    ELSE [b EXCEPT !.pc = "finally"]

\* session(): the code after yield session
SessionAfterBody(d, outcome) ==
    LET b == [d EXCEPT !.calls = Append(@, "body"),
                       !.failed = IF outcome = "ok" THEN @ ELSE @ \cup {"body"}] IN
    IF outcome = "raise" THEN Raise(b, "BodyError")
    ELSE IF outcome = "cancel" THEN Raise(b, "CancelledError")
    ELSE [b EXCEPT !.pc = IF d.ctx[2] THEN "commit" ELSE "finally"]

\* session(): await session.commit()
SessionCommit(d, ok) ==
    IF ok THEN [Commit(d, ok) EXCEPT !.pc = "finally"]
    ELSE Raise(Commit(d, ok), "CommitError")

\* session() whose except clause re-raises without the rollback
SessionExceptNoRollback(d, ok) == [d EXCEPT !.pc = "finally"]

\* session(): except Exception: await session.rollback(); raise
SessionExcept(d, ok) ==
    [Rollback(d, ok) EXCEPT !.pc = "finally", !.exc = IF ok THEN @ ELSE "RollbackError"]

\* session(): finally: await session.close()
SessionFinally(d) == [Close(d) EXCEPT !.pc = "aexit"]

\* connection(): wrapper, async with self.session_factory() as session
WrapperEnter(d, iso, commit, hasFactory) ==
    IF ~hasFactory
    THEN Leave([d EXCEPT !.exc = "TypeError"])
    ELSE [d EXCEPT !.ctx = <<iso, commit>>, !.created = TRUE, !.open = TRUE,
                   !.pc = IF iso THEN "iso" ELSE "body"]

\* connection(): SET TRANSACTION ISOLATION LEVEL, then the method
WrapperIsolation(d, ok) ==
    IF ok THEN [Execute(d, ok) EXCEPT !.pc = "body"]
    ELSE Raise(Execute(d, ok), "ExecuteError")

\* a wrapper that returns the result without the commit
WrapperAfterBodyNoCommit(d, outcome) ==
    LET b == [d EXCEPT !.calls = Append(@, "body"),
                       !.failed = IF outcome = "ok" THEN @ ELSE @ \cup {"body"}] IN
    IF outcome = "raise" THEN Raise(b, "BodyError")
    ELSE IF outcome = "cancel" THEN Raise(b, "CancelledError")
    ELSE [b EXCEPT !.pc = "finally"]

\* connection(): result = await method(...); if commit: ...; return result
WrapperAfterBody(d, outcome) ==
    LET b == [d EXCEPT !.calls = Append(@, "body"),
                       !.failed = IF outcome = "ok" THEN @ ELSE @ \cup {"body"}] IN
    IF outcome = "raise" THEN Raise(b, "BodyError")
    ELSE IF outcome = "cancel" THEN Raise(b, "CancelledError")
    ELSE [b EXCEPT !.pc = IF d.ctx[2] THEN "commit" ELSE "finally"]

\* connection(): await session.commit()
WrapperCommit(d, ok) ==
    IF ok THEN [Commit(d, ok) EXCEPT !.pc = "finally"]
    ELSE Raise(Commit(d, ok), "CommitError")

\* connection(): except Exception: await session.rollback(); raise
WrapperExcept(d, ok) ==
    [Rollback(d, ok) EXCEPT !.pc = "finally", !.exc = IF ok THEN @ ELSE "RollbackError"]

\* connection(): finally: await session.close()
WrapperFinally(d) == [Close(d) EXCEPT !.pc = "aexit"]

\* AsyncSession.__aexit__ of the async with: closes the session
SessionAExit(d) == Leave(Close(d))

\* get_session without the hasattr check
GetSessionNoCheck(d, hasManager, hasFactory) ==
    SessionEnter([d EXCEPT !.hadManager = hasManager], d.iso, d.commit, hasFactory)

\* dependency(): get_session(request)
GetSession(d, hasManager, hasFactory) ==
    IF ~hasManager
    THEN Leave([d EXCEPT !.exc = "RuntimeError"])
    ELSE SessionEnter([d EXCEPT !.hadManager = TRUE], d.iso, d.commit, hasFactory)

Modes == {"session", "dependency", "connection"}

\* a caller opens a session: with session_manager.session(...), a request
\* resolving DbSessionDepends(...), or a call of a connection()-decorated method
UseSession(mode, iso, commit) ==
    /\ db.pc \in {"idle", "done"}
    /\ mode = "dependency" => Serving
    /\ db' = CASE mode = "session" -> SessionEnter(NewUse(mode, iso, commit), iso, commit, factory)
               [] mode = "connection" -> WrapperEnter(NewUse(mode, iso, commit), iso, commit, factory)
               [] OTHER -> GetSession(NewUse(mode, iso, commit), "db_manager" \in appState, factory)
    /\ UNCHANGED <<lifespanOn, life, pool, factory, engine, appState, adminViews, rc, appVars, auxVars>>

SetIsolationLevel(ok) ==
    /\ db.pc = "iso"
    /\ db' = IF db.mode = "connection" THEN WrapperIsolation(db, ok) ELSE SessionIsolation(db, ok)
    /\ UNCHANGED <<lifespanOn, life, pool, factory, engine, appState, adminViews, rc, appVars, auxVars>>

RunBody(outcome) ==
    /\ db.pc = "body"
    /\ db' = IF db.mode = "connection" THEN WrapperAfterBody(db, outcome) ELSE SessionAfterBody(db, outcome)
    /\ UNCHANGED <<lifespanOn, life, pool, factory, engine, appState, adminViews, rc, appVars, auxVars>>

CommitSession(ok) ==
    /\ db.pc = "commit"
    /\ db' = IF db.mode = "connection" THEN WrapperCommit(db, ok) ELSE SessionCommit(db, ok)
    /\ UNCHANGED <<lifespanOn, life, pool, factory, engine, appState, adminViews, rc, appVars, auxVars>>

RollbackSession(ok) ==
    /\ db.pc = "except"
    /\ db' = IF db.mode = "connection" THEN WrapperExcept(db, ok) ELSE SessionExcept(db, ok)
    /\ UNCHANGED <<lifespanOn, life, pool, factory, engine, appState, adminViews, rc, appVars, auxVars>>

CloseSession ==
    /\ db.pc = "finally"
    /\ db' = IF db.mode = "connection" THEN WrapperFinally(db) ELSE SessionFinally(db)
    /\ UNCHANGED <<lifespanOn, life, pool, factory, engine, appState, adminViews, rc, appVars, auxVars>>

ExitSession ==
    /\ db.pc = "aexit"
    /\ db' = SessionAExit(db)
    /\ UNCHANGED <<lifespanOn, life, pool, factory, engine, appState, adminViews, rc, appVars, auxVars>>

(***************************************************************************)
(* RedisClientManager.get_client                                           *)
(***************************************************************************)
\* get_client(): the pool check and Redis(connection_pool=...), to the yield
GetClient(poolState) ==
    IF poolState = "none"
    THEN [pc |-> "done", hadPool |-> FALSE, created |-> FALSE, closed |-> FALSE,
          exc |-> "RuntimeError", result |-> "raised"]
    ELSE [pc |-> "body", hadPool |-> TRUE, created |-> TRUE, closed |-> FALSE,
          exc |-> "none", result |-> "none"]

\* get_client(): the body ran; control reaches finally
ClientAfterBody(c, outcome) ==
    [c EXCEPT !.pc = "finally", !.exc = IF outcome = "ok" THEN "none"
                                        ELSE IF outcome = "raise" THEN "BodyError"
                                        ELSE "CancelledError"]

\* get_client() that closes the client only after a body that did not raise
ClientFinallyOnSuccess(c) ==
    [c EXCEPT !.pc = "done", !.closed = (c.exc = "none"),
              !.result = IF c.exc = "none" THEN "returned" ELSE "raised"]

\* get_client(): finally: await redis_client.aclose()
ClientFinally(c) ==
    [c EXCEPT !.pc = "done", !.closed = TRUE,
              !.result = IF c.exc = "none" THEN "returned" ELSE "raised"]

UseClient ==
    /\ rc.pc \in {"idle", "done"}
    /\ rc' = GetClient(pool)
    /\ UNCHANGED <<lifespanOn, life, pool, factory, engine, appState, adminViews, db, appVars, auxVars>>

ClientBody(outcome) ==
    /\ rc.pc = "body"
    /\ rc' = ClientAfterBody(rc, outcome)
    /\ UNCHANGED <<lifespanOn, life, pool, factory, engine, appState, adminViews, db, appVars, auxVars>>

ClientClose ==
    /\ rc.pc = "finally"
    /\ rc' = ClientFinally(rc)
    /\ UNCHANGED <<lifespanOn, life, pool, factory, engine, appState, adminViews, db, appVars, auxVars>>

Outcomes == {"ok", "raise", "cancel"}

NextRes ==
    \/ LifespanStep
    \/ \E mode \in Modes, iso \in BOOLEAN, commit \in BOOLEAN : UseSession(mode, iso, commit)
    \/ \E ok \in BOOLEAN : SetIsolationLevel(ok)
    \/ \E outcome \in Outcomes : RunBody(outcome)
    \/ \E ok \in BOOLEAN : CommitSession(ok)
    \/ \E ok \in BOOLEAN : RollbackSession(ok)
    \/ CloseSession
    \/ ExitSession
    \/ UseClient
    \/ \E outcome \in Outcomes : ClientBody(outcome)
    \/ ClientClose

(***************************************************************************)
(* AdminAuth (admin/auth.py): the authentication backend written for the   *)
(* admin panel                                                             *)
(***************************************************************************)
\* an access_token cookie whose value is the empty string
EmptyCookie == -1

\* the access_token cookie of a request: none, empty, or a token
AdminCookies == Cookies \cup {EmptyCookie}

\* _extract_token: request.cookies.get("access_token"), 0 for None
extract_token(cookie) == cookie

\* _get_user_token: 401 without a token, else the pair (user, token) with
\* the user read_token gives, 0 for None
get_user_token(cookie, st, tbl) ==
    LET token == extract_token(cookie) IN
    IF token = 0 \/ token = EmptyCookie
    THEN [status |-> 401, user |-> 0, token |-> 0]
    ELSE [status |-> 200, user |-> ReadToken(token, st, tbl), token |-> token]

\* an authenticate that accepts every user the token resolves to
authenticateAnyUser(cookie, st, tbl) ==
    LET r == get_user_token(cookie, st, tbl) IN
    IF r.status # 200 THEN [ret |-> "raised", status |-> r.status]
    ELSE IF r.user # 0 THEN [ret |-> "True", status |-> 200]
    ELSE [ret |-> "raised", status |-> 403]

\* authenticate: True, or the HTTPException that leaves the method
authenticate(cookie, st, tbl) ==
    LET r == get_user_token(cookie, st, tbl) IN
    IF r.status # 200 THEN [ret |-> "raised", status |-> r.status]
    ELSE IF r.user # 0 /\ tbl[r.user].is_active /\ tbl[r.user].is_superuser
    THEN [ret |-> "True", status |-> 200]
    ELSE [ret |-> "raised", status |-> 403]

\* config.BASE_URL is declared HttpUrl | None: a validated value is a pydantic
\* Url object, an unset one is None; neither is a str
BaseUrlValues == {[type |-> "NoneType", text |-> "None"], [type |-> "Url", text |-> "BASE_URL"]}

\* backend.logout: CookieTransport.get_logout_response, 204 with the cookie
\* set to "" and max_age 0
LogoutResponse == [status |-> 204, location |-> "none", cleared |-> TRUE, exc |-> "none"]

\* response.headers["Location"] = value: MutableHeaders.__setitem__ encodes
\* the value with value.encode("latin-1"), which only a str has
SetLocation(resp, value) ==
    IF value.type = "str" THEN [resp EXCEPT !.location = value.text]
    ELSE [status |-> 500, location |-> "none", cleared |-> FALSE, exc |-> "AttributeError"]

\* response.status_code = 307, when the statement is reached
SetStatus(resp, code) == IF resp.exc = "none" THEN [resp EXCEPT !.status = code] ELSE resp

\* logout: the response or the exception the caller gets
logout(cookie, st, tbl, baseUrl) ==
    LET r == get_user_token(cookie, st, tbl) IN
    IF r.status # 200
    THEN [status |-> r.status, location |-> "none", cleared |-> FALSE, exc |-> "HTTPException"]
    ELSE SetStatus(SetLocation(LogoutResponse, baseUrl), 307)

NoCall == [n |-> 0, op |-> "none", cookie |-> 0, pk |-> 0, status |-> 0, exc |-> "none",
           ret |-> "none", user |-> 0, token |-> 0, location |-> "none", cleared |-> FALSE]

\* a call is recorded with its arguments and what came back; n tells one call
\* from the next
Called(op, cookie, pk) == [NoCall EXCEPT !.n = 1 - aa.n, !.op = op, !.cookie = cookie, !.pk = pk]

GetUserToken(cookie) ==
    LET r == get_user_token(cookie, store, users) IN
    /\ aa' = [Called("_get_user_token", cookie, 0) EXCEPT
                !.status = r.status, !.user = r.user, !.token = r.token,
                !.ret = IF r.status = 200 THEN "pair" ELSE "raised",
                !.exc = IF r.status = 200 THEN "none" ELSE "HTTPException"]
    /\ UNCHANGED <<appVars, resVars, cs, rows, mg>>

Authenticate(cookie) ==
    LET r == authenticate(cookie, store, users) IN
    /\ aa' = [Called("authenticate", cookie, 0) EXCEPT
                !.status = r.status, !.ret = r.ret,
                !.exc = IF r.ret = "True" THEN "none" ELSE "HTTPException"]
    /\ UNCHANGED <<appVars, resVars, cs, rows, mg>>

\* GET /auth/protected with the request's cookie (admin/router.py)
ProtectedCheck(cookie) ==
    LET r == protected(IF cookie = EmptyCookie THEN 0 ELSE cookie, store, users) IN
    /\ aa' = [Called("protected", cookie, 0) EXCEPT
                !.status = r.status, !.ret = "response"]
    /\ UNCHANGED <<appVars, resVars, cs, rows, mg>>

AdminLogout(cookie, baseUrl) ==
    LET t == get_user_token(cookie, store, users)
        r == logout(cookie, store, users, baseUrl)
    IN /\ aa' = [Called("logout", cookie, 0) EXCEPT
                    !.status = r.status, !.user = t.user, !.token = t.token,
                    !.location = r.location, !.cleared = r.cleared, !.exc = r.exc,
                    !.ret = IF r.exc = "none" THEN "response" ELSE "raised"]
       /\ store' = IF t.status = 200 THEN DestroyToken(store, t.token) ELSE store
       /\ revoked' = IF t.status = 200 /\ Key(t.token) \in DOMAIN store
                     THEN revoked \cup {t.token} ELSE revoked
       /\ UNCHANGED <<users, nextId, nextToken, expired, req, resVars, cs, rows, mg>>

(***************************************************************************)
(* The CSRF layer create_app wraps the application in (main.py, asgi_csrf) *)
(***************************************************************************)
\* asgi_csrf without always_protect
AlwaysProtectNone == {}

\* always_protect of main.py
AlwaysProtect == {"/auth/jwt/login", "/auth/jwt/logout", "/auth/register", "/auth/protected"}

\* paths a request may name: the protected ones and one that is not
CsrfPaths == {"/auth/jwt/login", "/auth/jwt/logout", "/auth/register", "/auth/protected",
              "/auth/forgot-password"}

Methods == {"GET", "POST"}
\* the csrftoken cookie: absent, a token signed with the secret, or a value
\* whose signature does not verify
CsrfCookies == {"none", "signed", "forged"}
\* the x-csrftoken header: absent, equal to the cookie's value, another value
CsrfHeaders == {"none", "cookie", "other"}
\* the body: JSON, or a form without the csrftoken field, with the field
\* equal to the cookie's value, with another value
Bodies == {"json", "form", "form_cookie", "form_other"}

\* the token a request must present: the cookie's when its signature
\* verifies, otherwise a fresh one the client cannot know
Presents(cookie, given) == cookie = "signed" /\ given = "cookie"

\* asgi_csrf(app, ..., always_protect=...): does the request reach the
\* wrapped application
asgi_csrf(method, path, cookie, others, header, body, bearer) ==
    IF method # "POST" THEN TRUE
    ELSE IF Presents(cookie, header) THEN TRUE
    ELSE IF cookie = "none" /\ ~others /\ path \notin AlwaysProtect THEN TRUE
    ELSE IF bearer THEN TRUE
    ELSE IF body = "json" THEN FALSE
    ELSE Presents(cookie, IF body = "form_cookie" THEN "cookie" ELSE "other")

NoRequest == [pc |-> "idle", method |-> "GET", path |-> "/auth/protected", cookie |-> "none",
              others |-> FALSE, header |-> "none", body |-> "json", bearer |-> FALSE,
              reached |-> FALSE, status |-> 0]

\* one request through the application create_app returns
CsrfRequest(method, path, cookie, others, header, body, bearer) ==
    LET pass == asgi_csrf(method, path, cookie, others, header, body, bearer) IN
    /\ cs' = [pc |-> "done", method |-> method, path |-> path, cookie |-> cookie,
              others |-> others, header |-> header, body |-> body, bearer |-> bearer,
              reached |-> pass, status |-> IF pass THEN 200 ELSE 403]
    /\ UNCHANGED <<appVars, resVars, aa, rows, mg>>

NextCsrf ==
    \E method \in Methods, path \in CsrfPaths, cookie \in CsrfCookies, others \in BOOLEAN,
       header \in CsrfHeaders, body \in Bodies, bearer \in BOOLEAN :
        CsrfRequest(method, path, cookie, others, header, body, bearer)

(***************************************************************************)
(* The admin panel's view of the user table (admin/models.py)              *)
(***************************************************************************)
\* sqladmin's default for a flag the view leaves out
CanEditDefault == TRUE

\* UserAdmin.can_create, can_edit, can_delete
can_create == FALSE
can_edit == FALSE
can_delete == TRUE

PanelOps == {"list", "details", "create", "edit", "delete"}

\* ModelView: the route of an operation answers 403 unless the view's flag
\* permits it
Permitted(op) ==
    CASE op = "create" -> can_create
      [] op = "edit" -> can_edit
      [] op = "delete" -> can_delete
      [] OTHER -> TRUE

\* UserAdmin(ModelView, model=User): the status of an operation on the record
\* pk and the table it leaves; id is the key a created record would get
UserAdmin(op, pk, tbl, id) ==
    IF ~Permitted(op) THEN [status |-> 403, tbl |-> tbl]
    ELSE IF op = "list" THEN [status |-> 200, tbl |-> tbl]
    ELSE IF op = "create"
    THEN [status |-> 302,
          tbl |-> [u \in DOMAIN tbl \cup {id} |->
                      IF u = id THEN [username |-> NameOf("b", 1), is_active |-> TRUE, is_superuser |-> TRUE]
                      ELSE tbl[u]]]
    ELSE IF pk \notin DOMAIN tbl THEN [status |-> 404, tbl |-> tbl]
    ELSE IF op = "edit"
    THEN [status |-> 302, tbl |-> [tbl EXCEPT ![pk].is_superuser = ~@]]
    ELSE IF op = "delete"
    THEN [status |-> 200, tbl |-> [u \in DOMAIN tbl \ {pk} |-> tbl[u]]]
    ELSE [status |-> 200, tbl |-> tbl]

\* a request to one of the view's routes, past the middleware
PanelRequest(op, pk) ==
    LET r == UserAdmin(op, pk, users, nextId) IN
    /\ op = "create" => nextId <= MaxUsers
    /\ aa' = [Called(op, 0, pk) EXCEPT !.status = r.status, !.ret = "response"]
    /\ users' = r.tbl
    /\ nextId' = IF DOMAIN r.tbl \ DOMAIN users # {} THEN nextId + 1 ELSE nextId
    /\ UNCHANGED <<store, nextToken, revoked, expired, req, resVars, cs, rows, mg>>

NextAdmin ==
    \/ \E u \in UserIds : Login(u)
    \/ \E t \in Cookies : Logout(t)
    \/ Tick
    \/ \E cookie \in AdminCookies : GetUserToken(cookie)
    \/ \E cookie \in AdminCookies : Authenticate(cookie)
    \/ \E cookie \in AdminCookies : ProtectedCheck(cookie)
    \/ \E cookie \in AdminCookies, baseUrl \in BaseUrlValues : AdminLogout(cookie, baseUrl)
    \/ \E op \in PanelOps, pk \in UserIds : PanelRequest(op, pk)

(***************************************************************************)
(* BaseManager (database/manager.py) over a table with two columns         *)
(***************************************************************************)
Fields == {"a", "b"}
Vals == {"x", "y"}
Unset == "unset"

\* a pydantic model of optional fields: each field set to a value or unset
Models == [Fields -> Vals \cup {Unset}]

\* model_dump(exclude_unset=True): the keys of the dict
Keys(m) == {f \in Fields : m[f] # Unset}

\* the filters argument: None, or a model
FilterArgs == {[given |-> g, model |-> m] : g \in BOOLEAN, m \in Models} \
                {[given |-> FALSE, model |-> m] : m \in {n \in Models : Keys(n) # {}}}

\* the values argument: a model with a field set
ValueArgs == {m \in Models : Keys(m) # {}}

\* filters.model_dump(exclude_unset=True) if filters else {}
FiltersDict(filters) == IF filters.given THEN filters.model ELSE [f \in Fields |-> Unset]

\* Query.filter_by(**kwargs): the rows equal to kwargs on every key
filter_by(tbl, kwargs) == {i \in 1..Len(tbl) : \A f \in Keys(kwargs) : tbl[i][f] = kwargs[f]}

\* Update.where(*whereclause) takes no keyword: any key is a TypeError
where(tbl, kwargs) ==
    IF Keys(kwargs) # {} THEN [exc |-> "TypeError", hit |-> {}]
    ELSE [exc |-> "none", hit |-> 1..Len(tbl)]

\* Result.scalar_one_or_none over the rows hit
scalar_one_or_none(hit) ==
    IF hit = {} THEN [exc |-> "none", ret |-> 0]
    ELSE IF Cardinality(hit) = 1 THEN [exc |-> "none", ret |-> CHOOSE i \in hit : TRUE]
    ELSE [exc |-> "MultipleResultsFound", ret |-> 0]

\* model = type[T]: what self.model is for a subclass that declares no
\* model, declares model = None, or declares an ORM class
ModelDecls == {"undeclared", "None", "Model"}
ModelAttr(decl) == IF decl = "undeclared" THEN "type[T]" ELSE decl

\* __init__: the exception it raises, "none" when it returns
BaseManagerInit(decl) ==
    IF ModelAttr(decl) = "missing" \/ ModelAttr(decl) = "None" THEN "ValueError" ELSE "none"

\* find_one_by
find_one_by(tbl, filters) == scalar_one_or_none(filter_by(tbl, FiltersDict(filters)))

\* update_all: the exception and the table it leaves
update_all(tbl, values, filters) ==
    LET w == where(tbl, FiltersDict(filters)) IN
    [exc |-> w.exc,
     tbl |-> [i \in 1..Len(tbl) |->
                IF i \in w.hit
                THEN [f \in Fields |-> IF values[f] # Unset THEN values[f] ELSE tbl[i][f]]
                ELSE tbl[i]]]

\* rows the model's table holds at most
MaxRows == 3

NoOp == [op |-> "none", decl |-> "Model", values |-> [f \in Fields |-> Unset],
         filters |-> [given |-> FALSE, model |-> [f \in Fields |-> Unset]],
         exc |-> "none", ret |-> 0]

Construct(decl) ==
    /\ mg' = [NoOp EXCEPT !.op = "__init__", !.decl = decl, !.exc = BaseManagerInit(decl)]
    /\ UNCHANGED <<appVars, resVars, aa, cs, rows>>

\* add: a new record with every column given
Add(values) ==
    /\ Len(rows) < MaxRows
    /\ Keys(values) = Fields
    /\ rows' = Append(rows, values)
    /\ mg' = [NoOp EXCEPT !.op = "add", !.values = values, !.ret = Len(rows) + 1]
    /\ UNCHANGED <<appVars, resVars, aa, cs>>

FindOneBy(filters) ==
    LET r == find_one_by(rows, filters) IN
    /\ mg' = [NoOp EXCEPT !.op = "find_one_by", !.filters = filters, !.exc = r.exc, !.ret = r.ret]
    /\ UNCHANGED <<appVars, resVars, aa, cs, rows>>

UpdateAll(values, filters) ==
    LET r == update_all(rows, values, filters) IN
    /\ rows' = r.tbl
    /\ mg' = [NoOp EXCEPT !.op = "update_all", !.values = values, !.filters = filters, !.exc = r.exc]
    /\ UNCHANGED <<appVars, resVars, aa, cs>>

NextManager ==
    \/ \E decl \in ModelDecls : Construct(decl)
    \/ \E values \in ValueArgs : Add(values)
    \/ \E filters \in FilterArgs : FindOneBy(filters)
    \/ \E values \in ValueArgs, filters \in FilterArgs : UpdateAll(values, filters)

InitAux ==
    /\ aa = NoCall
    /\ cs = NoRequest
    /\ rows = <<>>
    /\ mg = NoOp

(***************************************************************************)
(* Specifications                                                          *)
(***************************************************************************)
Init == InitApp /\ InitRes /\ InitAux /\ lifespanOn = TRUE

Next == NextApp

Spec == Init /\ [][Next]_vars

InitSession == InitRes /\ InitAux /\ lifespanOn \in BOOLEAN /\ users = EmptyTable /\ nextId = 1 /\ store = [k \in {} |-> [uid |-> 0, ttl |-> 0]]
               /\ nextToken = 1 /\ revoked = {} /\ expired = {} /\ req = IdleReq

NextSession == NextRes

SpecSession == InitSession /\ [][NextSession]_vars

\* tables the panel may find: empty, one user with any pair of flags, or an
\* active superuser and a registered user
AdminTables ==
    {EmptyTable} \cup {[u \in {1} |-> SeedUser(act, sup)] : act \in BOOLEAN, sup \in BOOLEAN}
    \cup {[u \in {1, 2} |-> IF u = 1 THEN SeedUser(TRUE, TRUE)
                             ELSE [username |-> NameOf("b", 1), is_active |-> TRUE, is_superuser |-> FALSE]]}

\* the panel starts on a database and a Redis that outlive the process: the
\* user may hold a token written before it was deactivated
InitAdmin ==
    /\ InitRes /\ InitAux /\ lifespanOn = TRUE
    /\ users \in AdminTables
    /\ nextId = Cardinality(DOMAIN users) + 1
    /\ \/ store = [k \in {} |-> [uid |-> 0, ttl |-> 0]] /\ nextToken = 1
       \/ DOMAIN users # {} /\ store = WriteToken([k \in {} |-> [uid |-> 0, ttl |-> 0]], 1, 1) /\ nextToken = 2
    /\ revoked = {}
    /\ expired = {}
    /\ req = IdleReq

SpecAdmin == InitAdmin /\ [][NextAdmin]_vars

SpecCsrf == Init /\ [][NextCsrf]_vars

InitManager == InitApp /\ InitRes /\ InitAux /\ lifespanOn = TRUE /\ users = EmptyTable

SpecManager == InitManager /\ [][NextManager]_vars

(***************************************************************************)
(* Properties                                                              *)
(***************************************************************************)
\* the path begins with the six characters "/admin"
UnderAdmin(path) == \A i \in 1..Len(AdminPrefix) : i <= Len(path) /\ path[i] = AdminPrefix[i]

Count(seq, x) == Cardinality({i \in 1..Len(seq) : seq[i] = x})
First(seq, x) == CHOOSE i \in 1..Len(seq) : seq[i] = x /\ \A j \in 1..(i - 1) : seq[j] # x
Has(seq, x) == \E i \in 1..Len(seq) : seq[i] = x

\* C1: dispatch invokes call_next exactly when the path is not under /admin
\* (and then no outbound check was made) or the path is under /admin and the
\* outbound check answered 200; a request under /admin whose check gave
\* anything else never reaches call_next.
C1_CallNextIffCheckPassed ==
    LET allowed == \/ ~UnderAdmin(req.path) /\ req.check.kind = "none"
                   \/ UnderAdmin(req.path) /\ req.check.kind = "response" /\ req.check.status = 200
    IN /\ req.called => allowed
       /\ req.pc = "done" => (req.called <=> allowed)
       /\ req.pc = "call_next" => allowed
       /\ ~UnderAdmin(req.path) => req.check.kind = "none"

C1_Witness ==
    /\ req.pc = "done"
    /\ req.path = PathAdminDelete
    /\ req.check.status = 200
    /\ req.called

\* C2: a check that answers with a status other than 200 makes dispatch
\* return a JSON response with that status and the check response's detail.
C2_ErrorResponseMirrorsCheck ==
    (req.pc = "done" /\ req.check.kind = "response" /\ req.check.status # 200)
        => /\ req.out.kind = "json"
           /\ req.out.status = req.check.status
           /\ req.out.detail = req.check.detail

\* C3: when the authentication service cannot be reached the request ends
\* with HTTP 503 and call_next is not invoked.
C3_UnavailableGives503 ==
    (req.pc = "done" /\ req.check.kind = "error")
        => /\ req.out.status = 503
           /\ ~req.called

\* the step accepts the request's cookie as an authenticated user: the home
\* handler's current_user, or the outbound check's current_admin_user
AcceptStep ==
    \/ req.pc = "call_next" /\ req.path = PathHome /\ req'.out.status = 200
    \/ req.pc = "checking" /\ req'.check.kind = "response" /\ req'.check.status = 200

\* C4: a request is accepted as authenticated only if, at that moment, its
\* cookie is a key of the Redis store that maps to an existing user; a token
\* never issued, expired or removed by logout is not in the store, and a
\* live key is never older than its lifetime.
C4_OnlyLiveTokensAuthenticate ==
    /\ [](\A t \in Tokens :
            /\ t \in revoked \cup expired => Key(t) \notin DOMAIN store
            /\ t \notin Issued => Key(t) \notin DOMAIN store
            /\ Key(t) \in DOMAIN store => store[Key(t)].ttl \in 1..3600)
    /\ [][AcceptStep =>
            /\ <<"access_token", req.cookie>> \in DOMAIN store
            /\ store[<<"access_token", req.cookie>>].uid \in DOMAIN users
            /\ req.cookie \in Issued \ (revoked \cup expired)]_vars

C4_Witness ==
    /\ req.pc = "done"
    /\ req.path = PathHome
    /\ req.out.status = 401
    /\ req.cookie \in revoked

\* C5: no two user records share a username and every username has 1 to 20
\* characters; a step adds a record only with a username of 1 to 20
\* characters that no record had, so a registration with a taken or too long
\* username adds nothing.
C5_UsernamesUniqueAndBounded ==
    /\ [](\A u \in DOMAIN users :
            /\ Len(users[u].username) \in 1..20
            /\ \A v \in DOMAIN users : u # v => users[u].username # users[v].username)
    /\ [][\A u \in DOMAIN users' \ DOMAIN users :
            /\ Len(users'[u].username) \in 1..20
            /\ \A v \in DOMAIN users : users[v].username # users'[u].username]_vars

C5_Witness ==
    /\ Cardinality(DOMAIN users) = 2
    /\ \E u \in DOMAIN users : Len(users[u].username) = 20
    /\ \E u \in DOMAIN users : Len(users[u].username) = 1

\* a finished use of session() (directly or through the dependency)
SessionDone == db.pc = "done" /\ db.mode # "connection" /\ db.created

BodyCompleted == Has(db.calls, "body") /\ "body" \notin db.failed

CommitOnceAfterBody ==
    /\ Count(db.calls, "commit") = 1
    /\ First(db.calls, "body") < First(db.calls, "commit")
    /\ First(db.calls, "commit") < First(db.calls, "close")

\* C6, as stated: with commit=True and a body that did not raise, commit is
\* called exactly once, after the body and before close, and rollback is not
\* called.
C6_CommitOnceNoRollback ==
    (SessionDone /\ db.ctx[2] /\ BodyCompleted)
        => CommitOnceAfterBody /\ ~Has(db.calls, "rollback")

\* C6, amended: with commit=True and a body that did not raise, commit is
\* called exactly once, after the body and before close; rollback is called
\* only when that commit raised.
C6_CommitOnceRollbackOnlyOnFailedCommit ==
    (SessionDone /\ db.ctx[2] /\ BodyCompleted)
        => /\ CommitOnceAfterBody
           /\ Has(db.calls, "rollback") <=> "commit" \in db.failed
           /\ db.persisted <=> "commit" \notin db.failed

C6_Witness ==
    /\ SessionDone
    /\ db.ctx[2]
    /\ BodyCompleted
    /\ db.persisted
    /\ db.result = "returned"

TryFailed == db.failed \cap {"execute", "body", "commit"} # {}

NoFurtherCommit == Count(db.calls, "commit") = IF "commit" \in db.failed THEN 1 ELSE 0

\* C7, as stated: when the isolation statement, the body or the commit
\* raises an Exception, rollback is called, no further commit is made, the
\* same exception reaches the caller and nothing is persisted.
C7_RollbackAndSameException ==
    (SessionDone /\ TryFailed /\ db.first # "CancelledError")
        => /\ Has(db.calls, "rollback")
           /\ NoFurtherCommit
           /\ db.result = "raised" /\ db.err = db.first
           /\ ~db.persisted

\* C7, amended: when the isolation statement, the body or the commit raises
\* an Exception, rollback is called once, no further commit is made and
\* nothing is persisted; the caller receives the same exception unless the
\* rollback itself raised, and then the rollback's exception.  An exception
\* that is not an Exception (a cancellation) reaches the caller without a
\* rollback call.
C7_RollbackThenRaise ==
    (SessionDone /\ TryFailed)
        => /\ NoFurtherCommit
           /\ ~db.persisted
           /\ db.result = "raised"
           /\ IF db.first = "CancelledError"
              THEN ~Has(db.calls, "rollback") /\ db.err = db.first
              ELSE /\ Count(db.calls, "rollback") = 1
                   /\ First(db.calls, "rollback") < First(db.calls, "close")
                   /\ db.err = IF "rollback" \in db.failed THEN "RollbackError" ELSE db.first

C7_Witness ==
    /\ SessionDone
    /\ "commit" \in db.failed
    /\ Has(db.calls, "rollback")
    /\ db.err = "CommitError"

\* C8: once a use of session() or of a connection()-decorated call has
\* returned or raised, the session it created is closed, whatever path led
\* there.
C8_SessionClosedOnEveryExit ==
    (db.pc = "done" /\ db.created)
        => /\ ~db.open
           /\ Has(db.calls, "close")
           /\ db.calls[Len(db.calls)] = "close"

C8_Witness ==
    /\ db.pc = "done"
    /\ db.mode = "connection"
    /\ "rollback" \in db.failed
    /\ ~db.open

\* C9: the dependency raises RuntimeError and creates no session when
\* app.state has no db_manager; a session it yields comes from the manager's
\* session(isolation_level, commit) with the dependency's own arguments.
C9_DependencyNeedsManager ==
    (db.pc # "idle" /\ db.mode = "dependency")
        => /\ "db_manager" \notin appState
                => /\ db.pc = "done" /\ db.result = "raised" /\ db.err = "RuntimeError"
                   /\ ~db.created /\ db.calls = <<>>
           /\ db.created => "db_manager" \in appState /\ db.ctx = <<db.iso, db.commit>>
           /\ Has(db.calls, "body") => db.created

C9_Witness ==
    /\ db.pc = "done"
    /\ db.mode = "dependency"
    /\ db.err = "RuntimeError"
    /\ ~db.created

\* C10: get_client raises RuntimeError and creates no client while the pool
\* is not initialized; a client it yielded is closed once the context has
\* exited, also after a raising body.
C10_ClientNeedsPoolAndIsClosed ==
    (rc.pc # "idle")
        => /\ pool = "none" => rc.result = "raised" /\ rc.exc = "RuntimeError" /\ ~rc.created
           /\ rc.created => pool # "none"
           /\ (rc.pc = "done" /\ rc.created) => rc.closed
           /\ rc.pc = "body" => rc.created

C10_Witness ==
    /\ rc.pc = "done"
    /\ rc.created
    /\ rc.exc = "BodyError"
    /\ rc.closed

\* the cookie is a key of the token store that maps to a user record
Resolves(c) ==
    /\ <<"access_token", c>> \in DOMAIN store
    /\ store[<<"access_token", c>>].uid \in DOMAIN users

ResolvesToAdmin(c) ==
    /\ Resolves(c)
    /\ users[store[<<"access_token", c>>].uid].is_active
    /\ users[store[<<"access_token", c>>].uid].is_superuser

WithoutToken(c) == c = 0 \/ c = EmptyCookie

C12_InvalidTokenRaises401 ==
    aa.op = "_get_user_token"
        => /\ WithoutToken(aa.cookie) => aa.ret = "raised" /\ aa.status = 401
           /\ aa.user = 0 => aa.ret = "raised" /\ aa.status = 401
           /\ aa.ret = "pair" => aa.user # 0

\* C13: after AdminAuth.logout for a request whose token resolved to a user
\* the token is no key of the store, and the caller holds a response with
\* status 307, Location equal to BASE_URL and the access_token cookie cleared.
C13_LogoutRemovesTokenAndRedirects ==
    (aa.op = "logout" /\ aa.user # 0)
        => /\ <<"access_token", aa.token>> \notin DOMAIN store
           /\ aa.ret = "response"
           /\ aa.status = 307
           /\ aa.location = "BASE_URL"
           /\ aa.cleared

\* C16: a step of the admin panel's user view adds no user record and changes
\* no field of a record that stays; create and edit are refused with 403; the
\* one change it makes to the table is the removal of the record a delete
\* names.
C16_PanelOnlyDeletes ==
    [][(aa'.n # aa.n /\ aa'.op \in {"list", "details", "create", "edit", "delete"}) =>
        /\ DOMAIN users' \subseteq DOMAIN users
        /\ \A u \in DOMAIN users' : users'[u] = users[u]
        /\ aa'.op \in {"create", "edit"} => aa'.status = 403
        /\ users' # users => aa'.op = "delete" /\ DOMAIN users \ DOMAIN users' = {aa'.pk}
        /\ nextId' = nextId]_vars

C16_Witness ==
    /\ aa.op = "delete"
    /\ aa.status = 200
    /\ aa.pk \notin DOMAIN users
    /\ nextId > aa.pk

\* the request carries, in the x-csrftoken header or the csrftoken form
\* field, the value of its csrftoken cookie
CarriesToken ==
    /\ cs.cookie # "none"
    /\ cs.header = "cookie" \/ cs.body = "form_cookie"

ProtectedPost ==
    /\ cs.pc = "done"
    /\ cs.method = "POST"
    /\ cs.path \in {"/auth/jwt/login", "/auth/jwt/logout", "/auth/register", "/auth/protected"}

\* C14, as stated: a POST to one of the four protected paths that does not
\* carry a token matching its csrftoken cookie is rejected before any route
\* handler, with or without other cookies.
C14_PostWithoutTokenRejected ==
    (ProtectedPost /\ ~CarriesToken) => ~cs.reached /\ cs.status = 403

\* C14, amended: a POST to one of the four protected paths that has no
\* Authorization: Bearer header and does not carry a token matching its
\* csrftoken cookie is rejected with 403 before any route handler, with or
\* without other cookies, and so is one whose cookie's signature does not
\* verify; a POST with an Authorization: Bearer header reaches the
\* application unchecked.
C14_PostWithoutTokenOrBearerRejected ==
    /\ (ProtectedPost /\ ~cs.bearer /\ (~CarriesToken \/ cs.cookie = "forged"))
            => ~cs.reached /\ cs.status = 403
    /\ (ProtectedPost /\ cs.bearer) => cs.reached

C14_Witness ==
    /\ ProtectedPost
    /\ cs.cookie = "none"
    /\ ~cs.others
    /\ ~cs.bearer
    /\ ~cs.reached

BodyOutcome(o) ==
    IF "body" \notin o.failed THEN "ok"
    ELSE IF o.first = "CancelledError" THEN "cancel" ELSE "raise"

\* one step of session() on the use d, each call ending as it did in o
SessionStep(d, o) ==
    CASE d.pc = "iso" -> SessionIsolation(d, "execute" \notin o.failed)
      [] d.pc = "body" -> SessionAfterBody(d, BodyOutcome(o))
      [] d.pc = "commit" -> SessionCommit(d, "commit" \notin o.failed)
      [] d.pc = "except" -> SessionExcept(d, "rollback" \notin o.failed)
      [] d.pc = "finally" -> SessionFinally(d)
      [] d.pc = "aexit" -> SessionAExit(d)
      [] OTHER -> d

\* session(isolation_level, commit) run to its end under the outcomes of o:
\* at most seven steps follow the entry
SessionRun(o) ==
    LET d0 == SessionEnter(NewUse("session", o.iso, o.commit), o.iso, o.commit, o.created)
        d1 == SessionStep(d0, o)
        d2 == SessionStep(d1, o)
        d3 == SessionStep(d2, o)
        d4 == SessionStep(d3, o)
        d5 == SessionStep(d4, o)
        d6 == SessionStep(d5, o)
    IN SessionStep(d6, o)

\* C20: a finished call of a connection()-decorated function made the same
\* calls, in the same order, on a session of its own as session() with the
\* same isolation_level and commit makes when every call ends the same way,
\* and hands the caller the same result or exception: the function's result
\* after success, the body's exception after a raising body, the commit's
\* after a raising commit (the rollback succeeding).
C20_ConnectionFollowsSessionProtocol ==
    (db.pc = "done" /\ db.mode = "connection")
        => LET s == SessionRun(db) IN
           /\ s.pc = "done"
           /\ s.calls = db.calls
           /\ s.created = db.created /\ s.open = db.open
           /\ s.ctx = db.ctx
           /\ s.persisted = db.persisted
           /\ s.result = db.result /\ s.err = db.err
           /\ db.failed = {} /\ db.created => db.result = "returned" /\ db.err = "none"
           /\ db.failed = {"body"} => db.result = "raised" /\ db.err = db.first
           /\ db.failed = {"commit"} => db.result = "raised" /\ db.err = "CommitError"

C20_Witness ==
    /\ db.pc = "done"
    /\ db.mode = "connection"
    /\ db.calls = <<"execute", "body", "commit", "rollback", "close", "close">>
    /\ db.err = "CommitError"

\* the record agrees with the filters on every field the filters set
Matches(rec, filters) ==
    filters.given => \A f \in {"a", "b"} : filters.model[f] = "unset" \/ rec[f] = filters.model[f]

\* C17: constructing a manager whose class declares no model, or declares
\* None, raises ValueError; construction succeeds only with an ORM class as
\* model.
C17_InitRequiresModel ==
    mg.op = "__init__" => (mg.exc = "ValueError" <=> mg.decl # "Model")

\* C18: update_all(values, filters) raises nothing, sets the set fields of
\* values on exactly the records that match every set field of filters (all
\* records when filters is None) and leaves the other records as they were.
C18_UpdateAllUpdatesMatching ==
    [][mg'.op = "update_all" =>
        /\ mg'.exc = "none"
        /\ Len(rows') = Len(rows)
        /\ \A i \in 1..Len(rows) :
              rows'[i] = IF Matches(rows[i], mg'.filters)
                         THEN [f \in {"a", "b"} |->
                                 IF mg'.values[f] # "unset" THEN mg'.values[f] ELSE rows[i][f]]
                         ELSE rows[i]]_vars

\* C19: find_one_by(filters) raises nothing and returns a record that
\* matches every set field of filters, or None when no record matches, also
\* when filters is None or matched by several records.
C19_FindOneByReturnsAMatch ==
    mg.op = "find_one_by"
        => /\ mg.exc = "none"
           /\ mg.ret # 0 => mg.ret \in 1..Len(rows) /\ Matches(rows[mg.ret], mg.filters)
           /\ mg.ret = 0 => \A i \in 1..Len(rows) : ~Matches(rows[i], mg.filters)

\* the cookie is, in this state, a live token of an existing superuser
LiveAdminToken(c) ==
    /\ Resolves(c)
    /\ users[store[<<"access_token", c>>].uid].is_superuser
    /\ c \notin revoked \cup expired

\* the step runs the handler of a request under /admin
AdminHandlerStep == req.pc = "call_next" /\ UnderAdmin(req.path) /\ req'.called

\* C21, as stated: whenever the handler of a request under /admin starts, the
\* request's token is still in the store and still maps to an existing
\* superuser: it was not logged out and its user was not deleted before.
C21_CheckStillHoldsAtCallNext ==
    [][AdminHandlerStep => LiveAdminToken(req.cookie)]_vars

\* C21, amended: the handler of a request under /admin runs only after the
\* outbound check of that request answered 200, and at the moment of that
\* check the token was in the store and mapped to an existing superuser.
\* The result is not validated again: a logout, an expiry or a deletion of
\* the user between the check and call_next does not stop the handler.
C21_HandlerRunsOnEarlierCheck ==
    /\ [][(req.pc = "checking" /\ req'.pc = "call_next") => LiveAdminToken(req.cookie)]_vars
    /\ [][AdminHandlerStep =>
            /\ req.check.kind = "response" /\ req.check.status = 200
            /\ req'.cookie = req.cookie /\ req'.check = req.check]_vars
    /\ [](req.pc = "call_next" /\ UnderAdmin(req.path) => req.check.status = 200)

C21_Witness ==
    /\ req.pc = "call_next"
    /\ UnderAdmin(req.path)
    /\ req.check.status = 200
    /\ req.cookie \in revoked

\* the token is a key of the store whose user id has no record
Orphan(c) ==
    /\ <<"access_token", c>> \in DOMAIN store
    /\ store[<<"access_token", c>>].uid \notin DOMAIN users

\* C22: a deletion through the admin panel leaves the Redis store as it is,
\* and a token still in the store whose user record is gone does not
\* authenticate: GET /auth/protected answers 401 for it, _get_user_token
\* resolves it to no user and AdminAuth.authenticate raises 403.
C22_TokenOfDeletedUserRejected ==
    /\ [][(aa'.n # aa.n /\ Orphan(aa'.cookie)) =>
            /\ aa'.op = "protected" => aa'.status = 401
            /\ aa'.op = "_get_user_token" => aa'.user = 0
            /\ aa'.op = "authenticate" => aa'.ret = "raised" /\ aa'.status = 403]_vars
    /\ [][(aa'.n # aa.n /\ aa'.op = "delete" /\ aa'.status = 200) =>
            /\ store' = store
            /\ aa'.pk \notin DOMAIN users'
            /\ \A t \in Tokens : (<<"access_token", t>> \in DOMAIN store
                                 /\ store[<<"access_token", t>>].uid = aa'.pk)
                                => ~Resolves(t)']_vars

C22_Witness ==
    /\ aa.op = "authenticate"
    /\ Orphan(aa.cookie)
    /\ DOMAIN users # {}
    /\ aa.status = 403

====
